---- MODULE Spec2Model ----
(***************************************************************************)
(* Model of backend/app.py, the AdhesioSense Flask server: the extension   *)
(* check allowed_file, the image preprocessor preprocess_image, the mocked *)
(* prediction provider predict_adhesion and the three route handlers       *)
(* predict, health_check and index, served by worker threads.              *)
(*                                                                         *)
(* Text is a sequence of one-character strings (file names) or a sequence  *)
(* of fragments (messages built by f-strings, where concatenation is \o).  *)
(* Floating-point numbers are exact rationals <<numerator, denominator>>   *)
(* in lowest terms; rounding of IEEE doubles is not modelled.              *)
(***************************************************************************)
EXTENDS Integers, Sequences, FiniteSets, TLC

\* ------------------------------------------------------------------ bounds
\* longest file name enumerated exhaustively over Alphabet
MaxLen == 4
\* the random draw is taken from the grid k / (2 * HalfScale), 0 <= k < 2 * HalfScale
HalfScale == 32
\* number of worker threads of the threaded server
NumThreads == 2

\* --------------------------------------------------------- program constants
\* image.resize((224, 224))
TargetSize == 224
\* np.array(image) / 255.0
MaxPixel == 255

\* ---------------------------------------------------------------------- state
VARIABLES
    pc,               \* per thread: where its handler stands
    request,          \* per thread: the request it serves (flask.request)
    file,             \* per thread: local file of predict
    image_bytes,      \* per thread: local image_bytes of predict
    image,            \* per thread: local image of predict
    processed_image,  \* per thread: local processed_image of predict
    result,           \* per thread: locals prediction, probability, graph_data
    response,         \* per thread: the response its handler returned
    trace,            \* per thread: the calls made on behalf of the request, in order
    drew,             \* per thread: the draw np.random.uniform handed to it, -1 if none
    rng,              \* the process-wide generator behind np.random
    uploads,          \* the files in UPLOAD_FOLDER
    arg, ret, upc     \* argument, result and position of a call of one function alone

vars == <<pc, request, file, image_bytes, image, processed_image, result,
          response, trace, drew, rng, uploads, arg, ret, upc>>

serverVars == <<pc, request, file, image_bytes, image, processed_image, result,
                response, trace, drew, rng, uploads>>

\* ------------------------------------------------------------------ rationals
RECURSIVE GCD(_, _)
GCD(a, b) == IF b = 0 THEN a ELSE GCD(b, a % b)

Abs(n) == IF n < 0 THEN -n ELSE n

\* lowest terms, positive denominator (d # 0)
RNorm(n, d) ==
    LET g == GCD(Abs(n), Abs(d))
        s == IF d < 0 THEN -1 ELSE 1
    IN  <<(s * n) \div g, (s * d) \div g>>

RAdd(a, b) == RNorm(a[1] * b[2] + b[1] * a[2], a[2] * b[2])
RSub(a, b) == RNorm(a[1] * b[2] - b[1] * a[2], a[2] * b[2])
RDiv(a, b) == RNorm(a[1] * b[2], a[2] * b[1])
RLt(a, b)  == a[1] * b[2] < b[1] * a[2]
RLeq(a, b) == a[1] * b[2] <= b[1] * a[2]
RZero == <<0, 1>>
ROne  == <<1, 1>>
RHalf == <<1, 2>>

\* ---------------------------------------------------------------- file names
ALLOWED_EXTENSIONS ==
    { <<"p","n","g">>, <<"j","p","g">>, <<"j","p","e","g">>, <<"b","m","p">> }

\* str.lower() on the letters that occur in the modelled names
LowerMap ==
    [A |-> "a", B |-> "b", E |-> "e", F |-> "f", G |-> "g", I |-> "i",
     J |-> "j", M |-> "m", N |-> "n", P |-> "p", X |-> "x"]

LowerChar(c) == IF c \in DOMAIN LowerMap THEN LowerMap[c] ELSE c

lower(s) == [i \in 1..Len(s) |-> LowerChar(s[i])]

\* str.rfind: index of the last occurrence of c at or before position i, 0 if none
RECURSIVE rfind(_, _, _)
rfind(s, c, i) ==
    IF i = 0 THEN 0
    ELSE IF s[i] = c THEN i
    ELSE rfind(s, c, i - 1)

\* s.rsplit(c, 1): at most one split, at the last occurrence of c
rsplit1(s, c) ==
    LET i == rfind(s, c, Len(s))
    IN  IF i = 0 THEN <<s>>
        ELSE <<SubSeq(s, 1, i - 1), SubSeq(s, i + 1, Len(s))>>

\* c in s
Contains(s, c) == \E i \in 1..Len(s) : s[i] = c

allowed_file_first_dot(filename) ==
    /\ Contains(filename, ".")
    /\ LET i == CHOOSE k \in 1..Len(filename) :
                    /\ filename[k] = "."
                    /\ \A j \in 1..(k - 1) : filename[j] # "."
       IN  lower(SubSeq(filename, i + 1, Len(filename))) \in ALLOWED_EXTENSIONS

allowed_file(filename) ==
    /\ Contains(filename, ".")
    /\ lower(rsplit1(filename, ".")[2]) \in ALLOWED_EXTENSIONS

\* -------------------------------------------------- results of calls that may raise
Ok(v)      == [ok |-> TRUE, val |-> v]
Raise(msg) == [ok |-> FALSE, err |-> msg]

\* ------------------------------------------------------------------- images
\* A decoded PIL image is abstracted to its mode, its size <<width, height>>,
\* the interval [lo, hi] its band values lie in, and the fault its lazy
\* loading or its conversion meets:
\*   "truncated"   - the header decodes but the pixel data is cut short, so
\*                   the first load of the pixels raises
\*   "unsupported" - the installed Pillow has no conversion of this mode to RGB
Modes == {"1", "L", "P", "LA", "RGB", "RGBA", "CMYK", "I", "I;16"}

Bands(mode) ==
    CASE mode \in {"1", "L", "P", "I", "I;16"} -> 1
      [] mode = "LA"                           -> 2
      [] mode = "RGB"                          -> 3
      [] mode \in {"RGBA", "CMYK"}             -> 4

\* the values a band of the mode can store
StorageLo(mode) == IF mode = "I" THEN -2147483647 ELSE 0
StorageHi(mode) ==
    CASE mode = "I"    -> 2147483647
      [] mode = "I;16" -> 65535
      [] OTHER         -> MaxPixel

Min(a, b) == IF a < b THEN a ELSE b
Max(a, b) == IF a > b THEN a ELSE b

\* Image.resize(size) with the default filter: loads the pixels, returns a
\* copy when the size is unchanged, resamples with NEAREST for modes "1", "P"
\* and the special modes and with BICUBIC otherwise.  NEAREST keeps the
\* values; BICUBIC leaves a constant image constant and otherwise may
\* overshoot, up to the limits of the band storage.
resize(im, size) ==
    IF im.fault = "truncated" THEN Raise(<<"image file is truncated">>)
    ELSE IF im.size = size THEN Ok(im)
    ELSE IF im.mode \in {"1", "P", "I;16"} \/ im.lo = im.hi
         THEN Ok([im EXCEPT !.size = size])
    ELSE Ok([im EXCEPT !.size = size,
                       !.lo = StorageLo(im.mode),
                       !.hi = StorageHi(im.mode)])

\* Image.convert("RGB"): three 8-bit bands.  Grey and alpha modes keep their
\* values, "I" is clipped to 0..255, palette, CMYK and 16-bit data are mapped
\* to values the model only knows to be 8-bit.
convert_rgb(im) ==
    IF im.fault = "unsupported" THEN Raise(<<"conversion not supported">>)
    ELSE IF im.mode \in {"1", "L", "LA", "RGBA", "I"}
         THEN Ok([im EXCEPT !.mode = "RGB",
                            !.lo = Max(0, Min(MaxPixel, im.lo)),
                            !.hi = Max(0, Min(MaxPixel, im.hi))])
    ELSE Ok([im EXCEPT !.mode = "RGB", !.lo = 0, !.hi = MaxPixel])

\* np.array(image) / 255.0: shape (height, width, bands), values scaled
array_div(im, d) ==
    [shape |-> <<im.size[2], im.size[1], Bands(im.mode)>>,
     lo    |-> RNorm(im.lo, d),
     hi    |-> RNorm(im.hi, d)]

\* np.expand_dims(a, axis=0)
expand_dims0(a) == [a EXCEPT !.shape = <<1>> \o a.shape]

preprocess_image_no_convert(im) ==
    LET r == resize(im, <<TargetSize, TargetSize>>)
    IN  IF ~r.ok THEN Raise(<<"Image preprocessing failed: ">> \o r.err)
        ELSE Ok(expand_dims0(array_div(r.val, MaxPixel)))

preprocess_image(im) ==
    LET r == resize(im, <<TargetSize, TargetSize>>)
    IN  IF ~r.ok THEN Raise(<<"Image preprocessing failed: ">> \o r.err)
        ELSE LET c == IF r.val.mode # "RGB" THEN convert_rgb(r.val) ELSE r
             IN  IF ~c.ok THEN Raise(<<"Image preprocessing failed: ">> \o c.err)
                 ELSE Ok(expand_dims0(array_div(c.val, MaxPixel)))

\* ------------------------------------------------------ prediction provider
Scale == 2 * HalfScale

\* np.random.uniform(0.0, 1.0) yields a value of [0, 1); draw k stands for k / Scale
Draws == 0..(Scale - 1)
Confidence(k) == RNorm(k, Scale)

\* the if / else of predict_adhesion: label and the two class probabilities
pa_branch(confidence) ==
    IF RLt(RHalf, confidence)
    THEN [prediction_label |-> "Yes",
          adhesion_prob    |-> confidence,
          no_adhesion_prob |-> RSub(ROne, confidence)]
    ELSE [prediction_label |-> "No",
          no_adhesion_prob |-> RSub(ROne, confidence),
          adhesion_prob    |-> confidence]

\* adhesion_prob + no_adhesion_prob before the renormalisation
pa_total(confidence) ==
    RAdd(pa_branch(confidence).adhesion_prob, pa_branch(confidence).no_adhesion_prob)

predict_adhesion_swapped(image_array, confidence) ==
    LET b     == pa_branch(confidence)
        total == pa_total(confidence)
    IN  Ok(<<b.prediction_label, RDiv(b.adhesion_prob, total),
             <<RDiv(b.adhesion_prob, total), RDiv(b.no_adhesion_prob, total)>>>>)

predict_adhesion_geq(image_array, confidence) ==
    LET b     == pa_branch(confidence)
        total == pa_total(confidence)
    IN  Ok(<<IF RLeq(RHalf, confidence) THEN "Yes" ELSE "No",
             RDiv(b.adhesion_prob, total),
             <<RDiv(b.no_adhesion_prob, total), RDiv(b.adhesion_prob, total)>>>>)

\* returns (prediction_label, adhesion_prob, graph_data); a division by a zero
\* total would raise inside the try and be wrapped as "Prediction failed: ..."
predict_adhesion(image_array, confidence) ==
    LET b     == pa_branch(confidence)
        total == pa_total(confidence)
    IN  IF total[1] = 0
        THEN Raise(<<"Prediction failed: ", "float division by zero">>)
        ELSE LET adhesion_prob    == RDiv(b.adhesion_prob, total)
                 no_adhesion_prob == RDiv(b.no_adhesion_prob, total)
             IN  Ok(<<b.prediction_label, adhesion_prob,
                      <<no_adhesion_prob, adhesion_prob>>>>)

\* ------------------------------------------------------------- JSON responses
\* jsonify(dict), status: the body is a function from its keys to their values
NoImageFileProvided ==
    [status |-> 400,
     body   |-> [error       |-> <<"No image file provided">>,
                 prediction  |-> "Error",
                 probability |-> RZero,
                 graph_data  |-> <<RZero, RZero>>]]

NoFileSelected ==
    [status |-> 400,
     body   |-> [error       |-> <<"No file selected">>,
                 prediction  |-> "Error",
                 probability |-> RZero,
                 graph_data  |-> <<RZero, RZero>>]]

InvalidFileType ==
    [status |-> 400,
     body   |-> [error       |-> <<"Invalid file type. Allowed types: PNG, JPG, JPEG, BMP">>,
                 prediction  |-> "Error",
                 probability |-> RZero,
                 graph_data  |-> <<RZero, RZero>>]]

PredictionSuccessful_no_message(prediction, probability, graph_data) ==
    [status |-> 200,
     body   |-> [prediction  |-> prediction,
                 probability |-> probability,
                 graph_data  |-> graph_data,
                 error       |-> <<>>]]

PredictionSuccessful_201(prediction, probability, graph_data) ==
    [status |-> 201,
     body   |-> [prediction  |-> prediction,
                 probability |-> probability,
                 graph_data  |-> graph_data,
                 message     |-> <<"Prediction successful">>]]

\* float(probability) and [float(x) for x in graph_data] keep the values
PredictionSuccessful(prediction, probability, graph_data) ==
    [status |-> 200,
     body   |-> [prediction  |-> prediction,
                 probability |-> probability,
                 graph_data  |-> [i \in 1..Len(graph_data) |-> graph_data[i]],
                 message     |-> <<"Prediction successful">>]]

InternalServerError_as_400(e) ==
    [status |-> 400,
     body   |-> [error       |-> <<"Invalid image: ">> \o e,
                 prediction  |-> "Error",
                 probability |-> RZero,
                 graph_data  |-> <<RZero, RZero>>]]

\* the except clause of predict; e is str(e)
InternalServerError(e) ==
    [status |-> 500,
     body   |-> [error       |-> <<"Internal server error: ">> \o e,
                 prediction  |-> "Error",
                 probability |-> RZero,
                 graph_data  |-> <<RZero, RZero>>]]

\* the handler has not answered
NoResponse == [status |-> 0, body |-> [pending |-> TRUE]]

\* the three validation checks of predict pass
Pass == [status |-> 0, body |-> [pass |-> TRUE]]

validate_extension_first(files) ==
    IF "image" \notin DOMAIN files THEN NoImageFileProvided
    ELSE IF ~allowed_file(files["image"].filename) THEN InvalidFileType
    ELSE IF files["image"].filename = <<>> THEN NoFileSelected
    ELSE Pass

\* the checks of predict before the file is read; files is request.files
validate(files) ==
    IF "image" \notin DOMAIN files THEN NoImageFileProvided
    ELSE IF files["image"].filename = <<>> THEN NoFileSelected
    ELSE IF ~allowed_file(files["image"].filename) THEN InvalidFileType
    ELSE Pass

health_check_degraded ==
    IF \E u \in DOMAIN response : response[u].status = 500
    THEN [status |-> 503,
          body   |-> [status  |-> "degraded",
                      message |-> "AdhesioSense AI Server is running",
                      version |-> "1.0.0"]]
    ELSE [status |-> 200,
          body   |-> [status  |-> "healthy",
                      message |-> "AdhesioSense AI Server is running",
                      version |-> "1.0.0"]]

health_check ==
    [status |-> 200,
     body   |-> [status  |-> "healthy",
                 message |-> "AdhesioSense AI Server is running",
                 version |-> "1.0.0"]]

\* jsonify without a status: 200
index ==
    [status |-> 200,
     body   |-> [name          |-> "AdhesioSense AI Server",
                 version       |-> "1.0.0",
                 endpoints     |->
                     [predict |-> "POST - Process image for adhesion detection",
                      health  |-> "GET - Server health check",
                      root    |-> "GET - API information"],
                 documentation |-> "See README.md for API usage instructions"]]

\* ------------------------------------------------------------------- requests
Threads == 1..NumThreads

Unset == [unset |-> TRUE]

NameEmpty    == <<>>
PhotoGif     == <<"p","h","o","t","o",".","g","i","f">>
PhotoNoDot   == <<"p","h","o","t","o">>
PhotoUpper   == <<"p","h","o","t","o",".","P","N","G">>

GoodRGB   == [mode |-> "RGB", size |-> <<640, 480>>, lo |-> 0, hi |-> 255,
              fault |-> "none"]
GreyExact == [mode |-> "L", size |-> <<TargetSize, TargetSize>>, lo |-> 10,
              hi |-> 200, fault |-> "none"]
CutShort  == [mode |-> "RGB", size |-> <<640, 480>>, lo |-> 0, hi |-> 255,
              fault |-> "truncated"]

\* what the uploaded stream holds: an encoded image, or bytes of no image format
Decodable(im) == [kind |-> "image", im |-> im]
Garbage       == [kind |-> "garbage"]

ServerNames   == {NameEmpty, PhotoGif, PhotoNoDot, PhotoUpper}
ServerStreams == {Decodable(GoodRGB), Decodable(GreyExact), Decodable(CutShort), Garbage}

\* request.files: empty, or the field 'image' holding a file
NoFiles == [k \in {} |-> Unset]
FilesWith(name, stream) == [image |-> [filename |-> name, stream |-> stream]]

ServerRequests ==
    {[route |-> "/health", files |-> NoFiles], [route |-> "/", files |-> NoFiles],
     [route |-> "/predict", files |-> NoFiles]}
    \cup {[route |-> "/predict", files |-> FilesWith(n, s)] :
              n \in ServerNames, s \in ServerStreams}

\* the generator's state is the draw it yields next; its successor is unknown
RngStates == {0, HalfScale, HalfScale + 1}

\* -------------------------------------------------------------------- server
ServerIdle ==
    /\ pc = [t \in Threads |-> "idle"]
    /\ request = [t \in Threads |-> Unset]
    /\ file = [t \in Threads |-> Unset]
    /\ image_bytes = [t \in Threads |-> Unset]
    /\ image = [t \in Threads |-> Unset]
    /\ processed_image = [t \in Threads |-> Unset]
    /\ result = [t \in Threads |-> Unset]
    /\ response = [t \in Threads |-> NoResponse]
    /\ trace = [t \in Threads |-> <<>>]
    /\ drew = [t \in Threads |-> -1]
    /\ uploads = {}

Init ==
    /\ ServerIdle
    /\ rng \in RngStates
    /\ arg = Unset /\ ret = Unset /\ upc = "unused"

CurrentRequest_shared(t) == IF pc[1] # "idle" THEN request[1] ELSE request[t]

\* flask.request resolves to the request of the calling thread's own context
CurrentRequest(t) == request[t]

Return(t, resp) ==
    /\ response' = [response EXCEPT ![t] = resp]
    /\ pc' = [pc EXCEPT ![t] = "done"]

Called(t, f) == trace' = [trace EXCEPT ![t] = Append(@, f)]

\* a request arrives and is routed to its handler on a free thread
Receive(t) ==
    /\ pc[t] = "idle"
    /\ \E q \in ServerRequests :
          /\ request' = [request EXCEPT ![t] = q]
          /\ pc' = [pc EXCEPT ![t] = CASE q.route = "/predict" -> "validate"
                                       [] q.route = "/health"  -> "health"
                                       [] q.route = "/"        -> "index"]
    /\ UNCHANGED <<drew, file, image_bytes, image, processed_image, result, response,
                   trace, rng, uploads, arg, ret, upc>>

Validate(t) ==
    /\ pc[t] = "validate"
    /\ LET v == validate(CurrentRequest(t).files)
       IN  IF v.status # 0
           THEN /\ Return(t, v)
                /\ UNCHANGED file
           ELSE /\ file' = [file EXCEPT ![t] = CurrentRequest(t).files["image"]]
                /\ pc' = [pc EXCEPT ![t] = "read"]
                /\ UNCHANGED response
    /\ UNCHANGED <<drew, request, image_bytes, image, processed_image, result, trace,
                   rng, uploads, arg, ret, upc>>

\* image_bytes = file.read()
Read(t) ==
    /\ pc[t] = "read"
    /\ image_bytes' = [image_bytes EXCEPT ![t] = file[t].stream]
    /\ Called(t, "read")
    /\ pc' = [pc EXCEPT ![t] = "open"]
    /\ UNCHANGED <<drew, request, file, image, processed_image, result, response, rng,
                   uploads, arg, ret, upc>>

\* Image.open(io.BytesIO(image_bytes)): identifies the format from the header
image_open(bytes) ==
    IF bytes.kind = "image" THEN Ok(bytes.im)
    ELSE Raise(<<"cannot identify image file">>)

Open(t) ==
    /\ pc[t] = "open"
    /\ Called(t, "open")
    /\ LET r == image_open(image_bytes[t])
       IN  IF r.ok
           THEN /\ image' = [image EXCEPT ![t] = r.val]
                /\ pc' = [pc EXCEPT ![t] = "preprocess"]
                /\ UNCHANGED response
           ELSE /\ Return(t, InternalServerError(r.err))
                /\ UNCHANGED image
    /\ UNCHANGED <<drew, request, file, image_bytes, processed_image, result, rng,
                   uploads, arg, ret, upc>>

Preprocess(t) ==
    /\ pc[t] = "preprocess"
    /\ Called(t, "preprocess_image")
    /\ LET r == preprocess_image(image[t])
       IN  IF r.ok
           THEN /\ processed_image' = [processed_image EXCEPT ![t] = r.val]
                /\ pc' = [pc EXCEPT ![t] = "predict"]
                /\ UNCHANGED response
           ELSE /\ Return(t, InternalServerError(r.err))
                /\ UNCHANGED processed_image
    /\ UNCHANGED <<drew, request, file, image_bytes, image, result, rng, uploads,
                   arg, ret, upc>>

\* predict_adhesion draws from the process-wide generator, which moves on
Predict(t) ==
    /\ pc[t] = "predict"
    /\ Called(t, "predict_adhesion")
    /\ drew' = [drew EXCEPT ![t] = rng]
    /\ rng' \in RngStates
    /\ LET r == predict_adhesion(processed_image[t], Confidence(rng))
       IN  IF r.ok
           THEN /\ result' = [result EXCEPT ![t] =
                                 [prediction  |-> r.val[1],
                                  probability |-> r.val[2],
                                  graph_data  |-> r.val[3]]]
                /\ pc' = [pc EXCEPT ![t] = "respond"]
                /\ UNCHANGED response
           ELSE /\ Return(t, InternalServerError(r.err))
                /\ UNCHANGED result
    /\ UNCHANGED <<request, file, image_bytes, image, processed_image, uploads,
                   arg, ret, upc>>

Respond(t) ==
    /\ pc[t] = "respond"
    /\ Return(t, PredictionSuccessful(result[t].prediction, result[t].probability,
                                      result[t].graph_data))
    /\ UNCHANGED <<drew, request, file, image_bytes, image, processed_image, result,
                   trace, rng, uploads, arg, ret, upc>>

HealthCheck(t) ==
    /\ pc[t] = "health"
    /\ Return(t, health_check)
    /\ UNCHANGED <<drew, request, file, image_bytes, image, processed_image, result,
                   trace, rng, uploads, arg, ret, upc>>

Index(t) ==
    /\ pc[t] = "index"
    /\ Return(t, index)
    /\ UNCHANGED <<drew, request, file, image_bytes, image, processed_image, result,
                   trace, rng, uploads, arg, ret, upc>>

\* the response is sent; the request context and the handler's locals are dropped
Close(t) ==
    /\ pc[t] = "done"
    /\ pc' = [pc EXCEPT ![t] = "idle"]
    /\ request' = [request EXCEPT ![t] = Unset]
    /\ file' = [file EXCEPT ![t] = Unset]
    /\ image_bytes' = [image_bytes EXCEPT ![t] = Unset]
    /\ image' = [image EXCEPT ![t] = Unset]
    /\ processed_image' = [processed_image EXCEPT ![t] = Unset]
    /\ result' = [result EXCEPT ![t] = Unset]
    /\ response' = [response EXCEPT ![t] = NoResponse]
    /\ trace' = [trace EXCEPT ![t] = <<>>]
    /\ drew' = [drew EXCEPT ![t] = -1]
    /\ UNCHANGED <<rng, uploads, arg, ret, upc>>

Step(t) ==
    \/ Validate(t) \/ Read(t) \/ Open(t) \/ Preprocess(t) \/ Predict(t)
    \/ Respond(t) \/ HealthCheck(t) \/ Index(t)

Next == \E t \in Threads : Receive(t) \/ Step(t) \/ Close(t)

Spec == Init /\ [][Next]_vars

\* --------------------------------------------- one function called on its own
Alphabet == {".", "b", "m", "p", "B", "x"}

PhotoDot    == <<"p","h","o","t","o",".">>
PhotoPngGif == <<"p","h","o","t","o",".","p","n","g",".","g","i","f">>
AGifJpg     == <<"a",".","g","i","f",".","j","p","g">>
DotPng      == <<".","p","n","g">>
XJpeg       == <<"x",".","J","p","e","G">>

Filenames ==
    UNION {[1..n -> Alphabet] : n \in 0..MaxLen}
    \cup {PhotoGif, PhotoNoDot, PhotoUpper, PhotoDot, PhotoPngGif, AGifJpg,
          DotPng, XJpeg}

InitAllowed ==
    /\ ServerIdle
    /\ rng = 0
    /\ arg \in Filenames /\ ret = Unset /\ upc = "call"

\* POST /predict with the file name arg, up to the end of the validation
CallValidate ==
    /\ upc = "call"
    /\ ret' = [allowed  |-> allowed_file(arg),
               response |-> validate(FilesWith(arg, Garbage))]
    /\ upc' = "returned"
    /\ UNCHANGED <<serverVars, arg>>

NextAllowed == CallValidate

SpecAllowed == InitAllowed /\ [][NextAllowed]_vars

Sizes == {<<1, 1>>, <<TargetSize, TargetSize>>, <<640, 480>>, <<100, 300>>}

Levels(mode) ==
    CASE mode = "1"    -> {0, 255}
      [] mode = "I"    -> {-70000, 0, 300, 70000}
      [] mode = "I;16" -> {0, 300, 65535}
      [] OTHER         -> {0, 128, 255}

Faults(mode) ==
    IF mode = "I;16" THEN {"none", "truncated", "unsupported"}
    ELSE {"none", "truncated"}

Images ==
    UNION {{[mode |-> m, size |-> z, lo |-> l, hi |-> h, fault |-> f] :
                z \in Sizes, l \in Levels(m), h \in Levels(m), f \in Faults(m)} :
           m \in Modes}

InitPreprocess ==
    /\ ServerIdle
    /\ rng = 0
    /\ arg \in {i \in Images : i.lo <= i.hi} /\ ret = Unset /\ upc = "call"

CallPreprocess ==
    /\ upc = "call"
    /\ ret' = preprocess_image(arg)
    /\ upc' = "returned"
    /\ UNCHANGED <<serverVars, arg>>

NextPreprocess == CallPreprocess

SpecPreprocess == InitPreprocess /\ [][NextPreprocess]_vars

\* the tensor handed to the provider, which does not look at it
SomeTensor == preprocess_image(GoodRGB).val

InitPredict ==
    /\ ServerIdle
    /\ rng = 0
    /\ arg \in Draws /\ ret = Unset /\ upc = "call"

CallPredict ==
    /\ upc = "call"
    /\ ret' = predict_adhesion(SomeTensor, Confidence(arg))
    /\ upc' = "returned"
    /\ UNCHANGED <<serverVars, arg>>

NextPredict == CallPredict

SpecPredict == InitPredict /\ [][NextPredict]_vars

\* ------------------------------------------------------------------- claims
\* the property of a file name the extension check is said to decide: it has a
\* '.', and what follows its last '.' is, in lower case, one of the four suffixes
HasAllowedLastSuffix(f) ==
    \E i \in 1..Len(f) :
        /\ f[i] = "."
        /\ \A j \in (i + 1)..Len(f) : f[j] # "."
        /\ lower(SubSeq(f, i + 1, Len(f))) \in
               { <<"p","n","g">>, <<"j","p","g">>, <<"j","p","e","g">>, <<"b","m","p">> }

\* thread t serves a POST /predict whose validation has been evaluated
Validated(t) ==
    /\ pc[t] \notin {"idle", "validate"}
    /\ request[t].route = "/predict"

Answered(t) == pc[t] = "done" /\ request[t].route = "/predict"

InvalidFileTypeText == "Invalid file type. Allowed types: PNG, JPG, JPEG, BMP"

\* C1: the validation checks of POST /predict run in the order missing field,
\* empty file name, extension, and the first that fails alone decides the
\* response: 400 "No image file provided", 400 "No file selected" (never the
\* invalid-file-type error), 400 "Invalid file type..."; a request that fails
\* a check is answered with no call of read, Image.open, preprocess_image or
\* predict_adhesion, hence with no draw.
C1_ValidationOrder ==
    \A t \in Threads : Validated(t) =>
        LET f == request[t].files
            r == response[t]
        IN  /\ "image" \notin DOMAIN f =>
                  /\ pc[t] = "done" /\ r.status = 400
                  /\ r.body.error = <<"No image file provided">>
            /\ ("image" \in DOMAIN f /\ f["image"].filename = <<>>) =>
                  /\ pc[t] = "done" /\ r.status = 400
                  /\ r.body.error = <<"No file selected">>
            /\ ("image" \in DOMAIN f /\ f["image"].filename # <<>>
                    /\ ~HasAllowedLastSuffix(f["image"].filename)) =>
                  /\ pc[t] = "done" /\ r.status = 400
                  /\ r.body.error = <<InvalidFileTypeText>>
            /\ r.status = 400 =>
                  /\ trace[t] = <<>> /\ drew[t] = -1
                  /\ image_bytes[t] = Unset /\ image[t] = Unset
                  /\ processed_image[t] = Unset /\ result[t] = Unset

C1_Witness ==
    \E t \in Threads :
        /\ Answered(t)
        /\ "image" \in DOMAIN request[t].files
        /\ request[t].files["image"].filename = <<>>
        /\ response[t] = NoFileSelected
        /\ trace[t] = <<>>

\* C2: for a non-empty file name, validation passes if and only if the name
\* has a '.' and the lower-cased text after its last '.' is png, jpg, jpeg or
\* bmp; otherwise the answer is the 400 invalid-file-type error.  "photo",
\* "photo.", "photo.gif" and "photo.png.gif" are rejected, "photo.PNG",
\* "a.gif.jpg" and ".png" pass.
C2_ExtensionCheck ==
    (upc = "returned" /\ arg # <<>>) =>
        /\ ret.allowed = HasAllowedLastSuffix(arg)
        /\ HasAllowedLastSuffix(arg) => ret.response = Pass
        /\ ~HasAllowedLastSuffix(arg) =>
              /\ ret.response.status = 400
              /\ ret.response.body.error = <<InvalidFileTypeText>>
        /\ arg \in {PhotoNoDot, PhotoDot, PhotoGif, PhotoPngGif} =>
              ret.response.status = 400
        /\ arg \in {PhotoUpper, AGifJpg, DotPng} => ret.response = Pass

C2_Witness ==
    /\ upc = "returned"
    /\ arg = AGifJpg
    /\ ret.allowed
    /\ ret.response = Pass

Prefix(s, full) == Len(s) <= Len(full) /\ s = SubSeq(full, 1, Len(s))

\* the upload of thread t passes validation and its stream does not decode or
\* does not preprocess
FailsAfterValidation(t) ==
    /\ "image" \in DOMAIN request[t].files
    /\ HasAllowedLastSuffix(request[t].files["image"].filename)
    /\ LET s == request[t].files["image"].stream
       IN  \/ s.kind = "garbage"
           \/ s.kind = "image" /\ s.im.fault # "none"

\* C3: every POST /predict ends with one response whose status is 200, 400 or
\* 500; no step is made twice; an exception of Image.open, preprocess_image or
\* predict_adhesion after a passed validation is answered by 500 with the
\* error "Internal server error: <cause>", never by 400, and 500 is answered
\* in no other case.
C3_OneResponse ==
    \A t \in Threads :
        /\ (pc[t] = "done") = (response[t].status # 0)
        /\ Answered(t) => response[t].status \in {200, 400, 500}
        /\ Prefix(trace[t], <<"read", "open", "preprocess_image", "predict_adhesion">>)
        /\ (Answered(t) /\ FailsAfterValidation(t)) =>
              /\ response[t].status = 500
              /\ Len(response[t].body.error) >= 2
              /\ response[t].body.error[1] = "Internal server error: "
        /\ (Answered(t) /\ response[t].status = 500) => FailsAfterValidation(t)

C3_Witness ==
    \E t \in Threads :
        /\ Answered(t)
        /\ "image" \in DOMAIN request[t].files
        /\ request[t].files["image"].filename = PhotoUpper
        /\ request[t].files["image"].stream = Garbage
        /\ response[t].status = 500
        /\ response[t].body.error =
               <<"Internal server error: ", "cannot identify image file">>

\* C4: every non-200 response of POST /predict has the keys error,
\* prediction, probability, graph_data with prediction "Error", probability
\* 0.0 and graph_data [0.0, 0.0], and no message; every 200 response has
\* message and no error, and its prediction is not "Error".
C4_Envelope ==
    \A t \in Threads : Answered(t) =>
        LET r == response[t]
        IN  IF r.status # 200
            THEN /\ DOMAIN r.body = {"error", "prediction", "probability", "graph_data"}
                 /\ r.body.prediction = "Error"
                 /\ r.body.probability = RZero
                 /\ r.body.graph_data = <<RZero, RZero>>
            ELSE /\ "message" \in DOMAIN r.body
                 /\ "error" \notin DOMAIN r.body
                 /\ r.body.prediction # "Error"

C4_Witness ==
    \E t, u \in Threads :
        /\ Answered(t) /\ response[t].status = 200
        /\ "message" \in DOMAIN response[t].body
        /\ Answered(u) /\ response[u].status = 500
        /\ response[u].body.prediction = "Error"

\* the upload of thread t passes validation, decodes and preprocesses
Succeeds(t) ==
    /\ "image" \in DOMAIN request[t].files
    /\ HasAllowedLastSuffix(request[t].files["image"].filename)
    /\ request[t].files["image"].stream.kind = "image"
    /\ request[t].files["image"].stream.im.fault = "none"

\* C5: a POST /predict is answered 200 exactly when it passes the three
\* checks and its file decodes, preprocesses and predicts; the 200 body has
\* the keys prediction, probability, graph_data, message with message
\* "Prediction successful", prediction Yes or No, probability in [0, 1] and a
\* two-element graph_data summing to 1.
C5_Success ==
    \A t \in Threads : Answered(t) =>
        /\ (response[t].status = 200) = Succeeds(t)
        /\ response[t].status = 200 =>
              LET b == response[t].body
              IN  /\ DOMAIN b = {"prediction", "probability", "graph_data", "message"}
                  /\ b.message = <<"Prediction successful">>
                  /\ b.prediction \in {"Yes", "No"}
                  /\ RLeq(RZero, b.probability) /\ RLeq(b.probability, ROne)
                  /\ Len(b.graph_data) = 2
                  /\ RAdd(b.graph_data[1], b.graph_data[2]) = ROne

C5_Witness ==
    \E t \in Threads :
        /\ Answered(t)
        /\ Succeeds(t)
        /\ request[t].files["image"].stream.im = GreyExact
        /\ response[t].status = 200
        /\ response[t].body.prediction = "Yes"

\* C6: for every draw, predict_adhesion returns without raising (the total it
\* divides by is not zero) a graph_data of two elements that sum to 1, whose
\* first element is 1 - confidence and whose second is the returned
\* probability, which is the confidence, whatever the label.
C6_GraphData ==
    upc = "returned" =>
        /\ ret.ok
        /\ pa_total(Confidence(arg))[1] # 0
        /\ LET probability == ret.val[2]
               graph_data  == ret.val[3]
           IN  /\ Len(graph_data) = 2
               /\ RAdd(graph_data[1], graph_data[2]) = ROne
               /\ graph_data[1] = RSub(ROne, Confidence(arg))
               /\ graph_data[2] = probability
               /\ probability = Confidence(arg)

C6_Witness ==
    /\ upc = "returned"
    /\ ret.ok
    /\ ret.val[1] = "Yes"
    /\ ret.val[3][2] = ret.val[2]
    /\ ret.val[3][1] # ret.val[3][2]

\* C7: the label is "Yes" exactly when the confidence is greater than 0.5 and
\* "No" otherwise, 0.5 included; the probability is the confidence in both
\* cases, so "Yes" has probability > 0.5 and graph_data[1] > graph_data[0],
\* and "No" has probability <= 0.5 and graph_data[0] >= graph_data[1].
C7_Label ==
    upc = "returned" =>
        LET label       == ret.val[1]
            probability == ret.val[2]
            graph_data  == ret.val[3]
        IN  /\ label \in {"Yes", "No"}
            /\ (label = "Yes") = (2 * arg > Scale)
            /\ probability = Confidence(arg)
            /\ label = "Yes" =>
                  /\ RLt(RHalf, probability)
                  /\ RLt(graph_data[1], graph_data[2])
            /\ label = "No" =>
                  /\ RLeq(probability, RHalf)
                  /\ RLeq(graph_data[2], graph_data[1])
                  /\ graph_data[2] = probability
                  /\ graph_data[1] = RSub(ROne, Confidence(arg))

C7_Witness ==
    /\ upc = "returned"
    /\ arg = HalfScale
    /\ ret.val[1] = "No"
    /\ ret.val[2] = RHalf

\* C8: for a decodable image of any size and mode preprocess_image returns a
\* tensor of shape (1, 224, 224, 3) with every value in [0, 1]; it raises only
\* when the pixel data cannot be loaded or the mode cannot be converted, and
\* then with the message "Image preprocessing failed: <cause>".
C8_Tensor ==
    upc = "returned" =>
        /\ ret.ok = ~(\/ arg.fault = "truncated"
                      \/ arg.fault = "unsupported" /\ arg.mode # "RGB")
        /\ ret.ok =>
              /\ ret.val.shape = <<1, TargetSize, TargetSize, 3>>
              /\ RLeq(RZero, ret.val.lo)
              /\ RLeq(ret.val.lo, ret.val.hi)
              /\ RLeq(ret.val.hi, ROne)
        /\ ~ret.ok =>
              /\ Len(ret.err) = 2
              /\ ret.err[1] = "Image preprocessing failed: "

C8_Witness ==
    /\ upc = "returned"
    /\ arg.mode = "RGBA"
    /\ arg.size = <<640, 480>>
    /\ arg.lo < arg.hi
    /\ ret.ok
    /\ ret.val.shape = <<1, 224, 224, 3>>

\* what one POST /predict with these files answers when it is served alone
\* and np.random.uniform hands it the draw k
ServedAlone(files, k) ==
    LET v == validate(files)
    IN  IF v.status # 0 THEN v
        ELSE LET o == image_open(files["image"].stream)
             IN  IF ~o.ok THEN InternalServerError(o.err)
                 ELSE LET p == preprocess_image(o.val)
                      IN  IF ~p.ok THEN InternalServerError(p.err)
                          ELSE LET q == predict_adhesion(p.val, Confidence(k))
                               IN  IF ~q.ok THEN InternalServerError(q.err)
                                   ELSE PredictionSuccessful(q.val[1], q.val[2], q.val[3])

\* the state thread t keeps for the request it serves
Local(t) ==
    <<pc[t], request[t], file[t], image_bytes[t], image[t], processed_image[t],
      result[t], response[t], trace[t], drew[t]>>

\* at every point of the handler the locals of thread t come from its own upload
OwnLocals(t) ==
    LET f == request[t].files
    IN  /\ pc[t] \in {"read", "open", "preprocess", "predict", "respond"} =>
              file[t] = f["image"]
        /\ pc[t] \in {"open", "preprocess", "predict", "respond"} =>
              image_bytes[t] = f["image"].stream
        /\ pc[t] \in {"preprocess", "predict", "respond"} =>
              image[t] = f["image"].stream.im
        /\ pc[t] \in {"predict", "respond"} =>
              processed_image[t] = preprocess_image(f["image"].stream.im).val
        /\ pc[t] = "respond" =>
              /\ drew[t] \in Draws
              /\ result[t].probability = Confidence(drew[t])

\* C9: under every interleaving of the threads, the response of each POST
\* /predict is the one the request would get served alone with its own draw
\* (status and error message from its upload only); the locals of a thread
\* come from its own upload, a step changes the locals of one thread only,
\* nothing is written to the upload directory, and the generator is the one
\* process-wide value that changes.
C9_Isolation ==
    /\ [](\A t \in Threads :
            /\ Answered(t) => response[t] = ServedAlone(request[t].files, drew[t])
            /\ (Answered(t) /\ response[t].status # 200) =>
                  \A k \in RngStates : response[t] = ServedAlone(request[t].files, k)
            /\ Validated(t) => OwnLocals(t)
            /\ uploads = {})
    /\ [][/\ \E t \in Threads : \A u \in Threads \ {t} : Local(u)' = Local(u)
          /\ uploads' = uploads
          /\ rng' # rng => \E t \in Threads : pc[t] = "predict" /\ pc'[t] # "predict"]_vars

C9_Witness ==
    /\ Answered(1) /\ Answered(2)
    /\ request[1].files = FilesWith(PhotoUpper, Decodable(GoodRGB))
    /\ request[2].files = FilesWith(PhotoUpper, Decodable(GreyExact))
    /\ response[1].status = 200 /\ response[2].status = 200
    /\ drew[1] # drew[2]
    /\ response[1].body.prediction # response[2].body.prediction

\* C10: whatever the other requests were answered, GET /health answers 200
\* with exactly {status: healthy, message: AdhesioSense AI Server is running,
\* version: 1.0.0} and GET / answers 200 with name, version and endpoints;
\* neither handler can fail to answer.
C10_Health ==
    \A t \in Threads :
        /\ (pc[t] = "done" /\ request[t].route = "/health") =>
              /\ response[t].status = 200
              /\ response[t].body =
                     [status  |-> "healthy",
                      message |-> "AdhesioSense AI Server is running",
                      version |-> "1.0.0"]
        /\ (pc[t] = "done" /\ request[t].route = "/") =>
              /\ response[t].status = 200
              /\ {"name", "version", "endpoints"} \subseteq DOMAIN response[t].body
              /\ response[t].body.name = "AdhesioSense AI Server"
              /\ response[t].body.version = "1.0.0"
        /\ pc[t] = "health" => ENABLED HealthCheck(t)
        /\ pc[t] = "index" => ENABLED Index(t)

C10_Witness ==
    \E t, u \in Threads :
        /\ pc[t] = "done" /\ request[t].route = "/health"
        /\ response[t].status = 200
        /\ response[t].body.status = "healthy"
        /\ Answered(u) /\ response[u].status = 500

====
